---- MODULE Spec2Model ----
(***************************************************************************)
(* Model of eval/eval_holidays.py: the INRIA Holidays mAP evaluation.      *)
(*                                                                         *)
(* Image names and rank tokens are strings, as in the program.  Average    *)
(* precisions are exact fractions <<n, d>> in lowest terms (the program    *)
(* uses floats; rounding is not modelled).  A fraction with denominator 0  *)
(* stands for the ZeroDivisionError the division raises.                   *)
(***************************************************************************)
EXTENDS Integers, Sequences, FiniteSets

VARIABLES
    pc,           \* position of the running function
    gt_lines,     \* lines of the ground-truth file read so far
    gt_names,     \* allnames / gt_names: every name of the ground-truth file
    gt,           \* dict: query name -> set of relevant names (popped while scoring)
    gt_cur,       \* the key whose set the local gt_results refers to, or Unbound
    res,          \* parse_results_file's dict res, in insertion order
    line,         \* the results line parse_results_file read last
    gt0,          \* the dict gt as get_groundtruth returned it
    entry,        \* which entry point runs: "file" or "dict"
    seen,         \* keys of results the loop has iterated over
    sum_ap,       \* local sum_ap
    nqueries,     \* local nqueries
    ret,          \* the value the entry point returned
    err,          \* the diagnostic it printed
    aps,          \* the ap computed for each scored query
    last,         \* the last loop iteration: query, ordered names, filtered names, ap
    ap_query,     \* compute_AP's argument query
    ap_gt,        \* compute_AP's argument gt
    ap_ret,       \* compute_AP's return value
    results,      \* the mapping the entry point iterates over, in iteration order
    flaws,        \* which of UnknownQuery / UnknownImage the iterated entries show
    idx,          \* number of entries of results.items() the loop has taken
    m_ap1,        \* main: m_ap of compute_mAP_from_file
    m_ap2         \* main: m_ap of compute_mAP

vars == <<pc, gt_lines, gt_names, gt, gt_cur, res, line, gt0, entry, seen, sum_ap,
          nqueries, ret, err, aps, last, ap_query, ap_gt, ap_ret, results, flaws, idx,
          m_ap1, m_ap2>>

\* Bounds of the model.
MaxLen == 3        \* longest list given to compute_AP
MaxGtLines == 4    \* longest ground-truth file
MaxTokens == 4     \* longest results line, in tokens
MaxResLines == 2   \* most lines of a results file / entries of a results mapping
MaxPairs == 2      \* most (rank, name) pairs of one query

(***************************************************************************)
(* Names and tokens                                                        *)
(***************************************************************************)
Unbound == "<unbound>"
NoLine == <<"<none>">>

\* int(imname[:-len(".jpg")]) on the names of the model
ImNo(imname) ==
    CASE imname = "100100.jpg" -> 100100
      [] imname = "100101.jpg" -> 100101
      [] imname = "100102.jpg" -> 100102
      [] imname = "100103.jpg" -> 100103
      [] imname = "100200.jpg" -> 100200
      [] imname = "100201.jpg" -> 100201
      [] imname = "100300.jpg" -> 100300
      [] imname = "999999.jpg" -> 999999

\* int(rank) succeeds on these tokens and raises ValueError on every other one
IsIntToken(tok) == tok \in {"1", "2", "3"}

IntOf(tok) ==
    CASE tok = "1" -> 1
      [] tok = "2" -> 2
      [] tok = "3" -> 3

\* Python's order on the name strings of the model (equal length, digits first)
StrLess(a, b) == ImNo(a) < ImNo(b)

\* Python's order on (rank, name) tuples
TupleLess(p, q) == p[1] < q[1] \/ (p[1] = q[1] /\ StrLess(p[2], q[2]))

(***************************************************************************)
(* Exact fractions                                                         *)
(***************************************************************************)
RECURSIVE GCD(_, _)
GCD(a, b) == IF b = 0 THEN a ELSE GCD(b, a % b)

Abs(n) == IF n < 0 THEN -n ELSE n

Frac(n, d) == LET g == GCD(Abs(n), d) IN <<n \div g, d \div g>>

FZero == <<0, 1>>
FOne == <<1, 1>>
ZeroDivisionError == <<1, 0>>
Sentinel == <<-1, 1>>

FAdd(a, b) == Frac(a[1] * b[2] + b[1] * a[2], a[2] * b[2])
FDiv(a, n) == IF n = 0 THEN ZeroDivisionError ELSE Frac(a[1], a[2] * n)
FLeq(a, b) == a[1] * b[2] <= b[1] * a[2]

RECURSIVE BoundedSeq(_, _)
BoundedSeq(S, n) ==
    IF n = 0 THEN {<<>>}
    ELSE LET shorter == BoundedSeq(S, n - 1)
         IN shorter \cup {Append(s, x) : s \in {t \in shorter : Len(t) = n - 1}, x \in S}

(***************************************************************************)
(* compute_AP                                                              *)
(***************************************************************************)
\* mutation: the precision is taken before the hit is counted
RECURSIVE APLoopStale(_, _, _, _, _, _)
APLoopStale(query, gtset, i, curr_k, curr_rel, ap) ==
    IF i > Len(query) THEN ap
    ELSE IF query[i] \in gtset
         THEN APLoopStale(query, gtset, i + 1, curr_k + 1, curr_rel + 1,
                          FAdd(ap, Frac(curr_rel, curr_k)))
         ELSE APLoopStale(query, gtset, i + 1, curr_k + 1, curr_rel, ap)

\* mutation: relevance is decided by comparing names with the greatest relevant
\* name instead of by membership
RECURSIVE APLoopRange(_, _, _, _, _, _)
APLoopRange(query, gtset, i, curr_k, curr_rel, ap) ==
    IF i > Len(query) THEN ap
    ELSE IF \E g \in gtset : query[i] = g \/ StrLess(query[i], g)
         THEN APLoopRange(query, gtset, i + 1, curr_k + 1, curr_rel + 1,
                          FAdd(ap, Frac(curr_rel + 1, curr_k)))
         ELSE APLoopRange(query, gtset, i + 1, curr_k + 1, curr_rel, ap)

\* the loop "for imname in query", from its i-th element on
RECURSIVE APLoop(_, _, _, _, _, _)
APLoop(query, gtset, i, curr_k, curr_rel, ap) ==
    IF i > Len(query) THEN ap
    ELSE IF query[i] \in gtset
         THEN APLoop(query, gtset, i + 1, curr_k + 1, curr_rel + 1,
                     FAdd(ap, Frac(curr_rel + 1, curr_k)))
         ELSE APLoop(query, gtset, i + 1, curr_k + 1, curr_rel, ap)

compute_AP(query, gtset) ==
    LET nrel == Cardinality(gtset)
    IN FDiv(APLoop(query, gtset, 1, 1, 0, FZero), nrel)

(***************************************************************************)
(* get_groundtruth                                                         *)
(***************************************************************************)
EmptyDict == [k \in {} |-> {}]

\* d[k] = v on a dict
Put(d, k, v) == [x \in DOMAIN d \cup {k} |-> IF x = k THEN v ELSE d[x]]

\* d.pop(k): the dict without the key k
Pop(d, k) == [x \in DOMAIN d \ {k} |-> d[x]]

IsQueryName(imname) == ImNo(imname) % 100 = 0

\* the locals of get_groundtruth before the first line
GtStart == [allnames |-> {}, gt |-> EmptyDict, gt_results |-> Unbound, raised |-> FALSE]

\* mutation: a query line creates its set but gt_results keeps the previous set
GtLineNoRebind(st, imname) ==
    IF st.raised THEN st
    ELSE IF IsQueryName(imname)
         THEN [st EXCEPT !.allnames = @ \cup {imname},
                         !.gt = Put(st.gt, imname, {}),
                         !.gt_results = IF @ = Unbound THEN imname ELSE @]
         ELSE IF st.gt_results = Unbound
              THEN [st EXCEPT !.allnames = @ \cup {imname}, !.raised = TRUE]
              ELSE [st EXCEPT !.allnames = @ \cup {imname},
                              !.gt = Put(st.gt, st.gt_results,
                                         st.gt[st.gt_results] \cup {imname})]

\* one iteration of "for line in file"; gt_results is the key of gt whose set
\* the local gt_results refers to (the two are the same object)
GtLine(st, imname) ==
    IF st.raised THEN st
    ELSE IF IsQueryName(imname)
         THEN [st EXCEPT !.allnames = @ \cup {imname},
                         !.gt = Put(st.gt, imname, {}),
                         !.gt_results = imname]
         ELSE IF st.gt_results = Unbound
              THEN [st EXCEPT !.allnames = @ \cup {imname}, !.raised = TRUE]
              ELSE [st EXCEPT !.allnames = @ \cup {imname},
                              !.gt = Put(st.gt, st.gt_results,
                                         st.gt[st.gt_results] \cup {imname})]

RECURSIVE GtFold(_, _, _)
GtFold(st, lines, i) ==
    IF i > Len(lines) THEN st ELSE GtFold(GtLine(st, lines[i]), lines, i + 1)

\* get_groundtruth on a whole file
get_groundtruth(lines) == GtFold(GtStart, lines, 1)

\* the names a ground-truth file of the model is written with
GtNames == {"100100.jpg", "100101.jpg", "100200.jpg", "100201.jpg"}

GtLocals == [allnames |-> gt_names, gt |-> gt, gt_results |-> gt_cur, raised |-> pc = "gt_raised"]

GtUnchanged ==
    UNCHANGED <<res, line, gt0, entry, seen, sum_ap, nqueries, ret, err, aps, last,
                ap_query, ap_gt, ap_ret, results, flaws, idx, m_ap1, m_ap2>>

GtApply(imname) ==
    LET st == GtLine(GtLocals, imname)
    IN /\ gt_lines' = Append(gt_lines, imname)
       /\ gt_names' = st.allnames
       /\ gt' = st.gt
       /\ gt_cur' = st.gt_results
       /\ pc' = IF st.raised THEN "gt_raised" ELSE "gt_loop"
       /\ GtUnchanged

\* a line whose id is divisible by 100
GtQueryLine ==
    /\ pc = "gt_loop"
    /\ Len(gt_lines) < MaxGtLines
    /\ \E imname \in GtNames : IsQueryName(imname) /\ GtApply(imname)

\* any other line, after a query line
GtRelevantLine ==
    /\ pc = "gt_loop"
    /\ Len(gt_lines) < MaxGtLines
    /\ gt_cur # Unbound
    /\ \E imname \in GtNames : ~IsQueryName(imname) /\ GtApply(imname)

\* any other line, before every query line: gt_results is unbound
GtUnboundLine ==
    /\ pc = "gt_loop"
    /\ Len(gt_lines) < MaxGtLines
    /\ gt_cur = Unbound
    /\ \E imname \in GtNames : ~IsQueryName(imname) /\ GtApply(imname)

\* end of file: return (allnames, gt)
GtReturn ==
    /\ pc = "gt_loop"
    /\ pc' = "gt_done"
    /\ UNCHANGED <<gt_lines, gt_names, gt, gt_cur>>
    /\ GtUnchanged

NoIteration == [kind |-> "none", query |-> Unbound, names |-> <<>>, filt |-> <<>>, ap |-> FZero]

\* every variable but pc, gt_lines and entry, before anything has run
Fresh ==
    /\ gt_names = {}
    /\ gt = EmptyDict
    /\ gt_cur = Unbound
    /\ res = <<>>
    /\ line = NoLine
    /\ gt0 = EmptyDict
    /\ seen = {}
    /\ sum_ap = FZero
    /\ nqueries = 0
    /\ ret = FZero
    /\ err = "none"
    /\ aps = EmptyDict
    /\ last = NoIteration
    /\ ap_query = <<>>
    /\ ap_gt = {}
    /\ ap_ret = FZero
    /\ results = <<>>
    /\ flaws = {}
    /\ idx = 0
    /\ m_ap1 = FZero
    /\ m_ap2 = FZero

Idle == Fresh /\ gt_lines = <<>> /\ entry = "none"

InitGT == Idle /\ pc = "gt_loop"

NextGT == GtQueryLine \/ GtRelevantLine \/ GtUnboundLine \/ GtReturn

SpecGT == InitGT /\ [][NextGT]_vars

\* the query line most recently before line i (i is after some query line)
RECURSIVE QueryLineBefore(_)
QueryLineBefore(i) ==
    IF IsQueryName(gt_lines[i - 1]) THEN i - 1 ELSE QueryLineBefore(i - 1)

QueriesHolding(imname) == {q \in DOMAIN gt : imname \in gt[q]}

OccursOnce(i) == \A j \in 1..Len(gt_lines) : gt_lines[j] = gt_lines[i] => j = i

NotAfter(imname, j) == \A m \in 1..Len(gt_lines) : gt_lines[m] = imname => m <= j

\* C9 as stated: every non-query name is in the relevant set of exactly one
\* query, the query of the most recent query line before it, repeated names
\* included.
C9_Original ==
    pc = "gt_done" =>
        \A i \in 1..Len(gt_lines) :
            ~IsQueryName(gt_lines[i]) =>
                QueriesHolding(gt_lines[i]) = {gt_lines[QueryLineBefore(i)]}

\* C9 amended: a non-query name that occurs on one line only, and whose most
\* recent query line is the last line of that query name, is in the relevant
\* set of exactly that query.
C9_RelevantSetOfLastQuery ==
    pc = "gt_done" =>
        \A i \in 1..Len(gt_lines) :
            (/\ ~IsQueryName(gt_lines[i])
             /\ OccursOnce(i)
             /\ NotAfter(gt_lines[QueryLineBefore(i)], QueryLineBefore(i)))
            => QueriesHolding(gt_lines[i]) = {gt_lines[QueryLineBefore(i)]}

\* a file with two queries, a repeated query line before it, and a relevant
\* name under each
C9_Witness ==
    /\ pc = "gt_done"
    /\ gt_lines = <<"100100.jpg", "100101.jpg", "100200.jpg", "100201.jpg">>
    /\ gt["100100.jpg"] = {"100101.jpg"}
    /\ gt["100200.jpg"] = {"100201.jpg"}

(***************************************************************************)
(* compute_AP called on its own                                            *)
(***************************************************************************)
APNames == {"100101.jpg", "100102.jpg", "100103.jpg"}

APUnchanged ==
    UNCHANGED <<gt_lines, gt_names, gt, gt_cur, res, line, gt0, entry, seen, sum_ap,
                nqueries, ret, err, aps, last, ap_query, ap_gt, results, flaws, idx,
                m_ap1, m_ap2>>

\* compute_AP runs to its return
APReturn ==
    /\ pc = "ap_call"
    /\ Cardinality(ap_gt) > 0
    /\ ap_ret' = compute_AP(ap_query, ap_gt)
    /\ pc' = "ap_done"
    /\ APUnchanged

\* nrel = 0: the division raises
APRaise ==
    /\ pc = "ap_call"
    /\ Cardinality(ap_gt) = 0
    /\ ap_ret' = compute_AP(ap_query, ap_gt)
    /\ pc' = "ap_raised"
    /\ APUnchanged

InitAP ==
    /\ pc = "ap_call"
    /\ gt_lines = <<>>
    /\ gt_names = {}
    /\ gt = EmptyDict
    /\ gt_cur = Unbound
    /\ res = <<>>
    /\ line = NoLine
    /\ gt0 = EmptyDict
    /\ entry = "none"
    /\ seen = {}
    /\ sum_ap = FZero
    /\ nqueries = 0
    /\ ret = FZero
    /\ err = "none"
    /\ aps = EmptyDict
    /\ last = NoIteration
    /\ ap_query \in BoundedSeq(APNames, MaxLen)
    /\ ap_gt \in SUBSET APNames
    /\ ap_ret = FZero
    /\ results = <<>>
    /\ flaws = {}
    /\ idx = 0
    /\ m_ap1 = FZero
    /\ m_ap2 = FZero

NextAP == APReturn \/ APRaise

SpecAP == InitAP /\ [][NextAP]_vars

\* number of images of gtset among positions 1..k of query
RelevantUpTo(query, gtset, k) == Cardinality({j \in 1..k : query[j] \in gtset})

RECURSIVE SumPrecision(_, _, _)
SumPrecision(query, gtset, K) ==
    IF K = {} THEN FZero
    ELSE LET k == CHOOSE x \in K : TRUE
         IN FAdd(Frac(RelevantUpTo(query, gtset, k), k),
                 SumPrecision(query, gtset, K \ {k}))

RelevantPositions(query, gtset) == {k \in 1..Len(query) : query[k] \in gtset}

\* C1: with |gt| > 0, compute_AP returns the sum, over the positions k that hold
\* an image of gt, of (images of gt among positions 1..k) / k, divided by |gt|;
\* gt = {100101, 100102} and the list [100101, 100103, 100102] give 5/6.
C1_AveragePrecisionFormula ==
    pc = "ap_done" =>
        /\ ap_ret = FDiv(SumPrecision(ap_query, ap_gt, RelevantPositions(ap_query, ap_gt)),
                         Cardinality(ap_gt))
        /\ (/\ ap_query = <<"100101.jpg", "100103.jpg", "100102.jpg">>
            /\ ap_gt = {"100101.jpg", "100102.jpg"}) => ap_ret = <<5, 6>>

C1_Witness ==
    /\ pc = "ap_done"
    /\ ap_query = <<"100101.jpg", "100103.jpg", "100102.jpg">>
    /\ ap_gt = {"100101.jpg", "100102.jpg"}
    /\ ap_ret = <<5, 6>>

IsRelevant(imname) == imname \in ap_gt

SameImages(l1, l2) ==
    /\ Len(l1) = Len(l2)
    /\ \A x \in APNames :
          Cardinality({k \in 1..Len(l1) : l1[k] = x}) = Cardinality({k \in 1..Len(l2) : l2[k] = x})

Reorderings(l1) == {l2 \in BoundedSeq(APNames, Len(l1)) : SameImages(l1, l2)}

\* C4 as stated: a reordering that keeps the relevant images in the same
\* relative order leaves compute_AP's value unchanged.
C4_Original ==
    pc = "ap_done" =>
        \A l2 \in Reorderings(ap_query) :
            SelectSeq(l2, IsRelevant) = SelectSeq(ap_query, IsRelevant)
            => compute_AP(l2, ap_gt) = ap_ret

RelevantInPlace(l1, l2) ==
    \A k \in 1..Len(l1) : (l1[k] \in ap_gt \/ l2[k] \in ap_gt) => l2[k] = l1[k]

\* C4 amended: a reordering that leaves every relevant image at its position,
\* and so permutes the irrelevant images among the positions they held, leaves
\* compute_AP's value unchanged.
C4_IrrelevantOrderInvariant ==
    pc = "ap_done" =>
        \A l2 \in Reorderings(ap_query) :
            RelevantInPlace(ap_query, l2) => compute_AP(l2, ap_gt) = ap_ret

C4_Witness ==
    /\ pc = "ap_done"
    /\ ap_query = <<"100101.jpg", "100103.jpg", "100102.jpg">>
    /\ ap_gt = {"100102.jpg"}
    /\ RelevantInPlace(ap_query, <<"100103.jpg", "100101.jpg", "100102.jpg">>)
    /\ compute_AP(<<"100103.jpg", "100101.jpg", "100102.jpg">>, ap_gt) = ap_ret
    /\ ap_ret = <<1, 3>>


(***************************************************************************)
(* parse_results_file                                                      *)
(***************************************************************************)
\* an insertion-ordered dict is a sequence of <<key, value>> with distinct keys
Keys(d) == {d[i][1] : i \in 1..Len(d)}

\* d[k] = v: a new key goes last, an old key keeps its place
DictSet(d, k, v) ==
    IF k \in Keys(d)
    THEN [i \in 1..Len(d) |-> IF d[i][1] = k THEN <<k, v>> ELSE d[i]]
    ELSE Append(d, <<k, v>>)

\* fields[1::2], as positions of fields (1-based)
RankPositions(fields) == {i \in 2..Len(fields) : i % 2 = 0}

\* list(zip(ranks, imnames)): zip stops at the shorter list
ZipRanksNames(fields) ==
    [k \in 1..((Len(fields) - 1) \div 2) |-> <<IntOf(fields[2 * k]), fields[2 * k + 1]>>]

\* one iteration of "for line in file" on the tokens of line.split()
ParseLine(d, fields) ==
    IF Len(fields) = 0
    THEN [raised |-> "IndexError", res |-> d]
    ELSE IF \E i \in RankPositions(fields) : ~IsIntToken(fields[i])
         THEN [raised |-> "ValueError", res |-> d]
         ELSE [raised |-> "no", res |-> DictSet(d, fields[1], ZipRanksNames(fields))]

ParseUnchanged ==
    UNCHANGED <<gt_lines, gt_names, gt, gt_cur, gt0, entry, seen, sum_ap, nqueries, ret,
                err, aps, last, ap_query, ap_gt, ap_ret, results, flaws, m_ap1, m_ap2>>

\* a line the loop accepts
ParseLineAccepted(fields) ==
    /\ pc = "parse_loop"
    /\ idx < MaxResLines
    /\ ParseLine(res, fields).raised = "no"
    /\ res' = ParseLine(res, fields).res
    /\ line' = fields
    /\ idx' = idx + 1
    /\ pc' = "parse_loop"
    /\ ParseUnchanged

\* a line on which fields[0] or int(rank) raises
ParseLineRaises(fields) ==
    /\ pc = "parse_loop"
    /\ idx < MaxResLines
    /\ ParseLine(res, fields).raised # "no"
    /\ line' = fields
    /\ idx' = idx + 1
    /\ pc' = "parse_raised"
    /\ UNCHANGED res
    /\ ParseUnchanged

\* end of file: return res
ParseReturn ==
    /\ pc = "parse_loop"
    /\ pc' = "parse_done"
    /\ UNCHANGED <<res, line, idx>>
    /\ ParseUnchanged

\* the tokens a results line of the model is written with
Tokens == {"100100.jpg", "100101.jpg", "1", "2"}

TokenLines == BoundedSeq(Tokens, MaxTokens)

InitParse == Idle /\ pc = "parse_loop"

NextParse ==
    \/ \E fields \in TokenLines : ParseLineAccepted(fields)
    \/ \E fields \in TokenLines : ParseLineRaises(fields)
    \/ ParseReturn

SpecParse == InitParse /\ [][NextParse]_vars

\* an odd number of tokens after the query name
OddTrailingTokens(fields) == Len(fields) >= 1 /\ (Len(fields) - 1) % 2 = 1

\* a rank token that is not an integer
NonIntegerRank(fields) == \E i \in RankPositions(fields) : ~IsIntToken(fields[i])

\* C8: parse_results_file raises on every line with an odd number of tokens
\* after the query name and on every line with a non-integer rank token.
C8_MalformedLineRaises ==
    (line # NoLine /\ (OddTrailingTokens(line) \/ NonIntegerRank(line)))
    => pc = "parse_raised"

(***************************************************************************)
(* compute_mAP_from_file and compute_mAP: the loop over results.items()    *)
(***************************************************************************)
\* p placed after the elements of the sorted list that are not greater
RECURSIVE InsertSorted(_, _)
InsertSorted(p, sorted) ==
    IF sorted = <<>> THEN <<p>>
    ELSE IF TupleLess(p, Head(sorted)) THEN <<p>> \o sorted
         ELSE <<Head(sorted)>> \o InsertSorted(p, Tail(sorted))

\* mutation: the list is left in file order
SortKeepsOrder(pairs) == pairs

\* query_results.sort(): ascending order of the (rank, name) tuples
RECURSIVE Sort(_)
Sort(pairs) ==
    IF pairs = <<>> THEN <<>>
    ELSE InsertSorted(pairs[Len(pairs)], Sort(SubSeq(pairs, 1, Len(pairs) - 1)))

\* "for _,res_name in query_results": the names of the pairs, in list order
NamesOf(pairs) == [k \in 1..Len(pairs) |-> pairs[k][2]]

\* mutation: the query's own name is kept in the list
RECURSIVE FilterLoopKeepsSelf(_, _, _, _, _)
FilterLoopKeepsSelf(names, query_name, allnames, i, filt) ==
    IF i > Len(names) THEN [ok |-> TRUE, filt |-> filt]
    ELSE IF names[i] \notin allnames THEN [ok |-> FALSE, filt |-> filt]
         ELSE FilterLoopKeepsSelf(names, query_name, allnames, i + 1,
                                  Append(filt, names[i]))

\* the filtering loop, from the i-th name on; ok = FALSE is the return -1 on a
\* name that is not in gt_names
RECURSIVE FilterLoop(_, _, _, _, _)
FilterLoop(names, query_name, allnames, i, filt) ==
    IF i > Len(names) THEN [ok |-> TRUE, filt |-> filt]
    ELSE IF names[i] \notin allnames THEN [ok |-> FALSE, filt |-> filt]
         ELSE IF names[i] = query_name
              THEN FilterLoop(names, query_name, allnames, i + 1, filt)
              ELSE FilterLoop(names, query_name, allnames, i + 1, Append(filt, names[i]))

\* the rest of the loop body, shared by the two entry points: names is the
\* ordered list of result names
ScoreQuery(query_name, names, allnames, gtd) ==
    LET gt_results == gtd[query_name]
        f == FilterLoop(names, query_name, allnames, 1, <<>>)
        ap == compute_AP(f.filt, gt_results)
    IN IF ~f.ok
       THEN [kind |-> "unknown_image", query |-> query_name, names |-> names,
             filt |-> f.filt, ap |-> FZero]
       ELSE IF ap = ZeroDivisionError
            THEN [kind |-> "zero_division", query |-> query_name, names |-> names,
                  filt |-> f.filt, ap |-> ap]
            ELSE [kind |-> "scored", query |-> query_name, names |-> names,
                  filt |-> f.filt, ap |-> ap]

UnknownQueryBody(query_name) ==
    [kind |-> "unknown_query", query |-> query_name, names |-> <<>>, filt |-> <<>>,
     ap |-> FZero]

\* loop body of compute_mAP_from_file: query_results is a list of (rank, name)
FileBody(query_name, query_results, allnames, gtd) ==
    IF query_name \notin DOMAIN gtd
    THEN UnknownQueryBody(query_name)
    ELSE ScoreQuery(query_name, NamesOf(Sort(query_results)), allnames, gtd)

\* loop body of compute_mAP: query_results is a list of names
DictBody(query_name, query_results, allnames, gtd) ==
    IF query_name \notin DOMAIN gtd
    THEN UnknownQueryBody(query_name)
    ELSE ScoreQuery(query_name, query_results, allnames, gtd)

\* mutation: the sum keeps only the last ap
AddApOverwrites(sum, ap) == ap

\* sum_ap += ap
AddAp(sum, ap) == FAdd(sum, ap)

\* mutation: queries left in gt are not reported
FinalValueIgnoresLeft(gtd, sum, n) == FDiv(sum, n)

\* the statements after the loop: -1 if gt is not empty, else sum_ap / nqueries
FinalValue(gtd, sum, n) == IF DOMAIN gtd # {} THEN Sentinel ELSE FDiv(sum, n)

\* what the names given for query_name show, whatever the loop does with them
FlawsOf(query_name, names) ==
    (IF query_name \notin DOMAIN gt0 THEN {"UnknownQuery"} ELSE {})
    \cup (IF \E k \in 1..Len(names) : names[k] \notin gt_names THEN {"UnknownImage"} ELSE {})

LoopUnchanged ==
    UNCHANGED <<gt_lines, gt_names, gt_cur, res, line, gt0, entry, ap_query, ap_gt,
                ap_ret, results, m_ap1, m_ap2>>

\* the effect of one loop iteration whose body came out as b
Iterate(b, given_names, loop_pc, done_pc, raised_pc) ==
    /\ gt' = IF b.kind = "unknown_query" THEN gt ELSE Pop(gt, b.query)
    /\ seen' = seen \cup {b.query}
    /\ flaws' = flaws \cup FlawsOf(b.query, given_names)
    /\ idx' = idx + 1
    /\ last' = b
    /\ sum_ap' = IF b.kind = "scored" THEN AddAp(sum_ap, b.ap) ELSE sum_ap
    /\ nqueries' = IF b.kind = "scored" THEN nqueries + 1 ELSE nqueries
    /\ aps' = IF b.kind = "scored" THEN Put(aps, b.query, b.ap) ELSE aps
    /\ ret' = CASE b.kind = "scored" -> ret
                [] b.kind = "zero_division" -> ZeroDivisionError
                [] OTHER -> Sentinel
    /\ err' = CASE b.kind = "unknown_query" -> "UnknownQuery"
                [] b.kind = "unknown_image" -> "UnknownImage"
                [] OTHER -> err
    /\ pc' = CASE b.kind = "scored" -> loop_pc
               [] b.kind = "zero_division" -> raised_pc
               [] OTHER -> done_pc
    /\ LoopUnchanged

\* the statements after the loop
Finish(done_pc, raised_pc) ==
    LET v == FinalValue(gt, sum_ap, nqueries)
    IN /\ ret' = v
       /\ err' = IF v = Sentinel THEN "MissingQueries" ELSE err
       /\ pc' = IF v = ZeroDivisionError THEN raised_pc ELSE done_pc
       /\ UNCHANGED <<gt, seen, flaws, idx, last, sum_ap, nqueries, aps>>
       /\ LoopUnchanged

\* compute_mAP_from_file: one iteration of the loop
FileIterate(query_name, query_results) ==
    /\ pc = "file_loop"
    /\ Iterate(FileBody(query_name, query_results, gt_names, gt), NamesOf(query_results),
               "file_loop", "file_done", "file_raised")

\* compute_mAP_from_file: the loop has ended
FileReturn ==
    /\ pc = "file_loop"
    /\ Finish("file_done", "file_raised")

\* compute_mAP: one iteration of the loop
DictIterate(query_name, query_results) ==
    /\ pc = "dict_loop"
    /\ Iterate(DictBody(query_name, query_results, gt_names, gt), query_results,
               "dict_loop", "dict_done", "dict_raised")

\* compute_mAP: the loop has ended
DictReturn ==
    /\ pc = "dict_loop"
    /\ Finish("dict_done", "dict_raised")

(***************************************************************************)
(* One call of either entry point, on any results mapping                  *)
(***************************************************************************)
\* gt_file is read: (gt_names, gt) = get_groundtruth(gt_file)
LoadGt(loop_pc, raised_pc) ==
    LET st == get_groundtruth(gt_lines)
    IN /\ gt_names' = st.allnames
       /\ gt' = st.gt
       /\ gt0' = st.gt
       /\ gt_cur' = st.gt_results
       /\ pc' = IF st.raised THEN raised_pc ELSE loop_pc
       /\ sum_ap' = FZero
       /\ nqueries' = 0
       /\ idx' = 0
       /\ seen' = {}
       /\ flaws' = {}
       /\ aps' = EmptyDict
       /\ last' = NoIteration
       /\ err' = "none"
       /\ UNCHANGED <<gt_lines, res, line, entry, ret, ap_query, ap_gt, ap_ret, results,
                      m_ap1, m_ap2>>

\* compute_mAP is called: the ground truth is read
DictLoadGt ==
    /\ pc = "dict_start"
    /\ LoadGt("dict_loop", "dict_raised")

\* compute_mAP_from_file is called with a results file already parsed
FileLoadGt ==
    /\ pc = "file_start"
    /\ LoadGt("file_loop", "file_raised")

Ascending(lines) == \A i \in 1..(Len(lines) - 1) : StrLess(lines[i], lines[i + 1])

\* ground-truth files that list each image once, in ascending order of id
SortedGtFiles == {f \in BoundedSeq(GtNames, MaxGtLines) : Ascending(f)}

RunQueries == {"100100.jpg", "100200.jpg", "100300.jpg"}
RunNames == {"100100.jpg", "100101.jpg", "100200.jpg", "100201.jpg", "999999.jpg"}
RunRanks == {1, 2}

NameLists == BoundedSeq(RunNames, MaxPairs)
PairLists == BoundedSeq(RunRanks \X RunNames, MaxPairs)

InitRun ==
    /\ Fresh
    /\ gt_lines \in SortedGtFiles
    /\ entry \in {"file", "dict"}
    /\ pc = IF entry = "file" THEN "file_start" ELSE "dict_start"

NextRun ==
    \/ FileLoadGt
    \/ DictLoadGt
    \/ \E q \in RunQueries \ seen, qr \in PairLists : idx < MaxResLines /\ FileIterate(q, qr)
    \/ \E q \in RunQueries \ seen, qr \in NameLists : idx < MaxResLines /\ DictIterate(q, qr)
    \/ FileReturn
    \/ DictReturn

SpecRun == InitRun /\ [][NextRun]_vars

Returned == pc \in {"file_done", "dict_done"}
Ended == pc \in {"file_done", "dict_done", "file_raised", "dict_raised"}

\* the list with every occurrence of the query's name deleted
WithoutName(names, query_name) ==
    LET Other(x) == x # query_name IN SelectSeq(names, Other)

\* C2: the average precision computed for a query with a non-empty relevant
\* set lies in [0, 1], repeated names in the result list included.
C2_AveragePrecisionInUnitInterval ==
    last.kind = "scored" => FLeq(FZero, last.ap) /\ FLeq(last.ap, FOne)

\* C7: in both entry points the average precision of a query is that of its
\* ordered result list with every occurrence of the query's name deleted.
C7_SelfMatchExcluded ==
    last.kind = "scored" =>
        /\ last.filt = WithoutName(last.names, last.query)
        /\ last.ap = compute_AP(WithoutName(last.names, last.query), gt0[last.query])

C7_Witness ==
    /\ entry = "file"
    /\ last.kind = "scored"
    /\ last.names = <<"100100.jpg", "100101.jpg">>
    /\ last.filt = <<"100101.jpg">>
    /\ last.ap = FOne

NonEmptyRelevantSets == \A q \in DOMAIN gt0 : gt0[q] # {}

\* C5: when every relevant set is non-empty, a run whose results show an
\* unknown query or an unknown image, or lack a ground-truth query, returns -1:
\* it neither returns a value nor raises.
C5_FlawedResultsReturnSentinel ==
    (Ended /\ NonEmptyRelevantSets /\ (flaws # {} \/ DOMAIN gt0 \ seen # {}))
    => (Returned /\ ret = Sentinel)

\* a query was scored, and the other ground-truth query has no entry
C5_Witness ==
    /\ Returned
    /\ NonEmptyRelevantSets
    /\ flaws = {}
    /\ DOMAIN gt0 \ seen = {"100200.jpg"}
    /\ nqueries = 1
    /\ sum_ap = FOne
    /\ err = "MissingQueries"
    /\ ret = Sentinel

RECURSIVE SumAps(_)
SumAps(Q) ==
    IF Q = {} THEN FZero
    ELSE LET q == CHOOSE x \in Q : TRUE IN FAdd(aps[q], SumAps(Q \ {q}))

\* C6: a value compute_mAP returns is the sum of the average precisions of all
\* ground-truth queries, each once, divided by their number; each average
\* precision depends on the query's own entry only, so the order of iteration
\* does not change the value.
C6_MeanOfAveragePrecisions ==
    (pc = "dict_done" /\ ret # Sentinel) =>
        /\ DOMAIN aps = DOMAIN gt0
        /\ nqueries = Cardinality(DOMAIN gt0)
        /\ ret = FDiv(SumAps(DOMAIN gt0), Cardinality(DOMAIN gt0))
        /\ last.kind = "scored" =>
              aps[last.query] = compute_AP(WithoutName(last.names, last.query),
                                           gt0[last.query])

C6_Witness ==
    /\ pc = "dict_done"
    /\ DOMAIN aps = {"100100.jpg", "100200.jpg"}
    /\ aps["100100.jpg"] = FOne
    /\ aps["100200.jpg"] = <<1, 2>>
    /\ last.query = "100100.jpg"
    /\ ret = <<3, 4>>

(***************************************************************************)
(* compute_mAP_from_file on a results file, then compute_mAP on a mapping  *)
(* made from the same file                                                 *)
(***************************************************************************)
\* compute_mAP_from_file is called: the ground truth is read, then the results
\* file is parsed
FileReadGt ==
    /\ pc = "file_start"
    /\ LoadGt("parse_loop", "file_raised")

\* results = parse_results_file(results_file); the loop starts
FileStartLoop ==
    /\ pc = "parse_done"
    /\ results' = res
    /\ idx' = 0
    /\ line' = NoLine
    /\ pc' = "file_loop"
    /\ UNCHANGED <<gt_lines, gt_names, gt, gt_cur, res, gt0, entry, seen, sum_ap, nqueries,
                   ret, err, aps, last, ap_query, ap_gt, ap_ret, flaws, m_ap1, m_ap2>>

\* the loop takes the next entry of results.items()
FileNext == idx < Len(results) /\ FileIterate(results[idx + 1][1], results[idx + 1][2])
DictNext == idx < Len(results) /\ DictIterate(results[idx + 1][1], results[idx + 1][2])

CallUnchanged ==
    UNCHANGED <<gt_lines, gt_names, gt, gt_cur, res, line, gt0, seen, sum_ap, nqueries,
                ret, err, aps, last, ap_query, ap_gt, ap_ret, flaws, idx>>

\* "%.5f" % m_ap, in units of 0.00001: the nearest, a tie going to the even one
Fmt5(m_ap) ==
    LET n == Abs(m_ap[1]) * 100000
        d == m_ap[2]
        q == n \div d
        r == n % d
        rounded == IF 2 * r > d \/ (2 * r = d /\ q % 2 = 1) THEN q + 1 ELSE q
    IN IF m_ap[1] < 0 THEN -rounded ELSE rounded

\* main: the first m_ap is printed
MainPrintFirst ==
    /\ pc = "file_done"
    /\ m_ap1' = ret
    /\ pc' = "main_second"
    /\ UNCHANGED <<entry, results, m_ap2>>
    /\ CallUnchanged

\* main: the file is parsed again (it has not changed, so the result is res
\* again) and results_new gets each query's names in the order of the file
MainBuildMapping ==
    /\ pc = "main_second"
    /\ results' = [i \in 1..Len(res) |-> <<res[i][1], NamesOf(res[i][2])>>]
    /\ entry' = "dict"
    /\ pc' = "dict_start"
    /\ UNCHANGED <<m_ap1, m_ap2>>
    /\ CallUnchanged

\* main: the second m_ap is printed
MainPrintSecond ==
    /\ pc = "dict_done"
    /\ m_ap2' = ret
    /\ pc' = "main_done"
    /\ UNCHANGED <<entry, results, m_ap1>>
    /\ CallUnchanged

\* holidays_images.dat: each image once, in ascending order, a query first
Dataset == <<"100100.jpg", "100101.jpg", "100200.jpg", "100201.jpg">>

\* the ground truth of these runs: the first lines of the dataset
MainGtFiles ==
    {SubSeq(Dataset, 1, n) : n \in 1..(IF MaxGtLines < Len(Dataset) THEN MaxGtLines
                                                                   ELSE Len(Dataset))}

MainQueries == {"100100.jpg", "100200.jpg"}
MainRankTokens == {"1", "2"}
MainNames == {"100101.jpg", "100201.jpg"}

RECURSIVE Flatten(_)
Flatten(pairs) ==
    IF pairs = <<>> THEN <<>> ELSE <<pairs[1][1], pairs[1][2]>> \o Flatten(Tail(pairs))

\* the well-formed results lines: a query name, then ranks and names in turn;
\* a results file has one line for a query name
MainLines ==
    {<<q>> \o Flatten(pairs) :
        q \in MainQueries, pairs \in BoundedSeq(MainRankTokens \X MainNames, MaxPairs)}

InitMain ==
    /\ Fresh
    /\ gt_lines \in MainGtFiles
    /\ entry = "file"
    /\ pc = "file_start"

NextMain ==
    \/ FileReadGt
    \/ \E fields \in MainLines : fields[1] \notin Keys(res) /\ ParseLineAccepted(fields)
    \/ ParseReturn
    \/ FileStartLoop
    \/ FileNext
    \/ (idx = Len(results) /\ FileReturn)
    \/ MainPrintFirst
    \/ MainBuildMapping
    \/ DictLoadGt
    \/ DictNext
    \/ (idx = Len(results) /\ DictReturn)
    \/ MainPrintSecond

SpecMain == InitMain /\ [][NextMain]_vars

\* C10: the two mAP values the command-line run prints are equal, also when a
\* line does not list its ranks in ascending order.
C10_PrintedValuesEqual ==
    pc = "main_done" => Fmt5(m_ap1) = Fmt5(m_ap2)

(***************************************************************************)
(* The two entry points called on equivalent data                          *)
(***************************************************************************)
\* the outcome of compute_mAP_from_file is kept: a value, -1 or the exception
EquivKeepFirst ==
    /\ pc \in {"file_done", "file_raised"}
    /\ m_ap1' = ret
    /\ pc' = "equiv_second"
    /\ UNCHANGED <<entry, results, m_ap2>>
    /\ CallUnchanged

IsPermutation(f, n) == \A i \in 1..n : \E j \in 1..n : f[j] = i

\* the names of the pairs in ascending order of rank
ByAscendingRank(pairs) ==
    LET n == Len(pairs)
        f == CHOOSE g \in [1..n -> 1..n] :
                 /\ IsPermutation(g, n)
                 /\ \A i \in 1..(n - 1) : pairs[g[i]][1] <= pairs[g[i + 1]][1]
    IN [i \in 1..n |-> pairs[f[i]][2]]

\* compute_mAP is called with the ordered list of retrieved images of each query
EquivCallDict ==
    /\ pc = "equiv_second"
    /\ results' = [i \in 1..Len(res) |-> <<res[i][1], ByAscendingRank(res[i][2])>>]
    /\ entry' = "dict"
    /\ pc' = "dict_start"
    /\ UNCHANGED <<m_ap1, m_ap2>>
    /\ CallUnchanged

\* the outcome of compute_mAP is kept
EquivKeepSecond ==
    /\ pc \in {"dict_done", "dict_raised"}
    /\ m_ap2' = ret
    /\ pc' = "equiv_done"
    /\ UNCHANGED <<entry, results, m_ap1>>
    /\ CallUnchanged

NextEquiv ==
    \/ FileReadGt
    \/ \E fields \in MainLines : fields[1] \notin Keys(res) /\ ParseLineAccepted(fields)
    \/ ParseReturn
    \/ FileStartLoop
    \/ FileNext
    \/ (idx = Len(results) /\ FileReturn)
    \/ EquivKeepFirst
    \/ EquivCallDict
    \/ DictLoadGt
    \/ DictNext
    \/ (idx = Len(results) /\ DictReturn)
    \/ EquivKeepSecond

SpecEquiv == InitMain /\ [][NextEquiv]_vars

DistinctRanks(pairs) ==
    \A i, j \in 1..Len(pairs) : pairs[i][1] = pairs[j][1] => i = j

\* C3: when the ranks of each query are distinct, compute_mAP_from_file on the
\* file and compute_mAP on the mapping that lists each query's names in
\* ascending order of rank end alike: the same mAP, or -1 both.
C3_EntryPointsAgree ==
    (pc = "equiv_done" /\ \A i \in 1..Len(res) : DistinctRanks(res[i][2]))
    => m_ap1 = m_ap2

\* a line whose ranks descend, scored to the same value by both
C3_Witness ==
    /\ pc = "equiv_done"
    /\ Len(res) = 2
    /\ res[1] = <<"100100.jpg", <<<<2, "100101.jpg">>, <<1, "100201.jpg">>>>>>
    /\ m_ap1 = <<3, 4>>
    /\ m_ap2 = <<3, 4>>

====
